---------------------------- MODULE Spec2Model ----------------------------
(***************************************************************************)
(* Survivability scoring and remediation engine (MYNTIST-IAM/IAM).         *)
(*                                                                         *)
(* State: the persisted token ledger (security/token-ledger.yml), the      *)
(* manifest store (ops/autoheal/<date>/<token_id>.yml), the scoring        *)
(* report, the policy file, the GitHub organization the scripts call, and  *)
(* the position of a running apply pass (apply_autoheal.main).             *)
(*                                                                         *)
(* Conventions.                                                            *)
(*  - A Python dict is a TLA+ function whose DOMAIN is the set of keys     *)
(*    present; d.get(k, dflt) is Get(d, k, dflt).                          *)
(*  - Python None is the string "None" (only string-valued fields are      *)
(*    ever read with a None default).                                      *)
(*  - Scores are integers in thousandths (round(S, 3) * 1000).             *)
(*  - A scope string "a, b" is [sep |-> ", ", parts |-> <<"a", "b">>]: the  *)
(*    parts it joins; the empty string has no parts. A list of scopes (a   *)
(*    policy's or an action's target_scopes) is a plain sequence.          *)
(*  - token_id values keep their YAML type: [t |-> "int"|"str", v |-> n];  *)
(*    str(x) is Str(x).                                                    *)
(*  - Wall-clock timestamps (proposed_at, timestamp, last_scored) are not  *)
(*    part of the state; the date directory of a manifest is `today`.      *)
(***************************************************************************)
EXTENDS Integers, Sequences, FiniteSets, TLC

VARIABLES
    ledger,     \* security/token-ledger.yml: the sequence ledger["tokens"]
    store,      \* ops/autoheal: function from manifest paths to manifests
    opsRoot,    \* OPS_ROOT.exists()
    report,     \* REPORT_JSON.exists()
    policy,     \* security/autoheal-policy.yml
    org,        \* the GitHub organization: login -> role, or "absent"
    today,      \* the current day (datetime.now(), day granularity)
    applyPc,    \* position of apply_autoheal.main: "idle" or "loop"
    mem,        \* apply_autoheal.main's in-memory ledger["tokens"]
    queue,      \* apply_autoheal.main's remaining (path, manifest) list
    res,        \* apply_autoheal.main's last apply_manifest result
    outcome,    \* history: res["ok"] of each manifest path applied in this pass
    applied,    \* history: per staged manifest file, what applying it gave
    agents,     \* agents/agent-ledger.yml: the sequence agent_data["agents"]
    products,   \* products/product-ledger.yml: the sequence ledger["products"]
    reports     \* rows of reports/token_health.json and reports/agent_health.json

vars == <<ledger, store, opsRoot, report, policy, org, today,
          applyPc, mem, queue, res, outcome, applied, agents, products, reports>>

-----------------------------------------------------------------------------
(* Bounds of the model *)

MaxDay == 1
MaxApplied == 2
MaxReapply == 1
MaxHist == 1

-----------------------------------------------------------------------------
(* Python dict and list helpers *)

Get(d, k, dflt) == IF k \in DOMAIN d THEN d[k] ELSE dflt

Put(d, k, v) == [x \in (DOMAIN d) \cup {k} |-> IF x = k THEN v ELSE d[x]]

Del(d, k) == [x \in (DOMAIN d) \ {k} |-> d[x]]

EmptyDict == [x \in {} |-> TRUE]

Range(s) == {s[i] : i \in 1..Len(s)}

RECURSIVE Filter(_, _)
Filter(s, keep) ==
    IF s = <<>> THEN <<>>
    ELSE IF Head(s) \in keep THEN <<Head(s)>> \o Filter(Tail(s), keep)
         ELSE Filter(Tail(s), keep)

Max(a, b) == IF a >= b THEN a ELSE b

Str(id) == [t |-> "str", v |-> id.v]

StrId(n) == [t |-> "str", v |-> n]

IntId(n) == [t |-> "int", v |-> n]


-----------------------------------------------------------------------------
(* survivability_scoring.py: the scorer and the history tracker *)

MAX_HISTORY_ENTRIES == 7

\* len(scope.split(',')): the empty string splits into one (empty) part.
Granted(scope) == IF Len(scope.parts) = 0 THEN 1 ELSE Len(scope.parts)

\* math.cos(drift) in thousandths; drift is given in milliradians and only
\* the angles of DriftAngles occur in the model.
DriftAngles == {0, 1047, 1571, 3142}

Cos1000(drift) ==
    CASE drift = 0 -> 1000
      [] drift = 1047 -> 500
      [] drift = 1571 -> 0
      [] drift = 3142 -> -1000
      [] OTHER -> 1000

\* role_multiplier * 10
RoleMultiplier10(token_data) ==
    IF Get(token_data, "entity_type", "None") = "user"
    THEN LET role == Get(token_data, "role", "member")
         IN  IF role = "admin" THEN 20
             ELSE IF role = "member" THEN 15
             ELSE 10
    ELSE 10

\* repo_multiplier * 10
RepoMultiplier10(token_data) ==
    IF "repo_access_summary" \in DOMAIN token_data
    THEN LET rs == token_data["repo_access_summary"]
             total_repos == Get(rs, "total_repos", 0)
             private_repos == Get(rs, "private_repos", 0)
             admin_repos == Get(rs, "admin_repos", 0)
         IN  IF total_repos > 0
             THEN 10 + total_repos
                  + (IF private_repos > 0 THEN 2 * private_repos ELSE 0)
                  + (IF admin_repos > 0 THEN 3 * admin_repos ELSE 0)
             ELSE 10
    ELSE 10

\* time_factor * 100; issued_on is a day number, days_old = now - issued_on
TimeFactor100(token_data, now) ==
    IF "issued_on" \in DOMAIN token_data
    THEN LET days_old == now - token_data["issued_on"]
         IN  IF days_old > 100 THEN Max(30, 100 - (days_old - 100))
             ELSE IF days_old < 30 THEN 120
             ELSE IF Get(token_data, "entity_type", "None") = "user" THEN 110
             ELSE 100
    ELSE 100

\* 'org:' in str(item) / 'role:' in str(item) for some item of the trail
HasProvenance(audit_trail) ==
    \E i \in 1..Len(audit_trail) :
        /\ audit_trail[i].event = "str"
        /\ audit_trail[i].key \in {"org", "role"}

\* audit_factor * 10
AuditFactor10(audit, token_data) ==
    IF audit THEN 10
    ELSE IF Get(token_data, "entity_type", "None") = "user"
         THEN IF HasProvenance(Get(token_data, "audit_trail", <<>>)) THEN 10 ELSE 9
         ELSE 5

\* The score in thousandths without the normalisation to the 0-1 range
Unclamped1000(num, den) == num \div den

\* round(min(1.0, max(0.0, S)), 3) in thousandths, where S * 1000 = num / den
\* and den > 0
ClampRound1000(num, den) ==
    IF num <= 0 THEN 0
    ELSE IF num >= 1000 * den THEN 1000
    ELSE (2 * num + den) \div (2 * den)

calculate_score(scope, used, drift, audit, token_data, now) ==
    LET granted == Granted(scope)
        used1 == IF used = 0 THEN 1 ELSE used
        \* base_score = (1 / (granted / used)) * cos(drift); the factors are
        \* scaled by 1000, 10, 10, 100 and 10, so S * 1000 = num / (granted * 10^5)
        num == used1 * Cos1000(drift)
               * RoleMultiplier10(token_data) * RepoMultiplier10(token_data)
               * TimeFactor100(token_data, now) * AuditFactor10(audit, token_data)
        den == granted * 100000
    IN  ClampRound1000(num, den)

get_status(score) ==
    IF score >= 800 THEN "Healthy"
    ELSE IF score >= 200 THEN "Degrading"
    ELSE "Critical"

\* A stored score_history that is not a list (a YAML scalar): the one-element
\* sequence no list of entries equals
NotAList == <<[scalar |-> TRUE]>>

\* isinstance(existing_history, list)
IsList(h) == ~(Len(h) = 1 /\ "scalar" \in DOMAIN h[1])

\* update_score_history without the cut to the last MAX_HISTORY_ENTRIES
update_score_history_uncut(token_id, new_score, existing_history) ==
    IF existing_history = <<>> \/ ~IsList(existing_history)
    THEN <<[score |-> new_score]>>
    ELSE Append(existing_history, [score |-> new_score])

\* update_score_history that appends nothing when the score is the one of
\* the latest entry
update_score_history_dedup(token_id, new_score, existing_history) ==
    LET existing == IF existing_history = <<>> \/ ~IsList(existing_history)
                    THEN <<>> ELSE existing_history
        appended == IF existing # <<>> /\ existing[Len(existing)].score = new_score
                    THEN existing
                    ELSE Append(existing, [score |-> new_score])
    IN  IF Len(appended) > MAX_HISTORY_ENTRIES
        THEN SubSeq(appended, Len(appended) - MAX_HISTORY_ENTRIES + 1, Len(appended))
        ELSE appended

update_score_history(token_id, new_score, existing_history) ==
    LET existing == IF existing_history = <<>> \/ ~IsList(existing_history)
                    THEN <<>> ELSE existing_history
        appended == Append(existing, [score |-> new_score])
    IN  IF Len(appended) > MAX_HISTORY_ENTRIES
        THEN SubSeq(appended, Len(appended) - MAX_HISTORY_ENTRIES + 1, Len(appended))
        ELSE appended

\* One iteration of the scoring loop (survivability_scoring.py:135-158)
ScoreToken(token, now) ==
    LET S == calculate_score(token["scope"],
                             Get(token, "used_permissions", 1),
                             Get(token, "scope_drift", 0),
                             Get(token, "audit_trail", <<>>) # <<>>,
                             token, now)
        score_history == update_score_history(token["token_id"], S,
                                              Get(token, "score_history", <<>>))
    IN  Put(Put(token, "survivability_score", S), "score_history", score_history)

\* The scoring loop raises (KeyError) on an entity without scope, token_id or
\* owner, before the ledger or any report is written
ScoringRaises(tokens) ==
    \E i \in 1..Len(tokens) : ~({"scope", "token_id", "owner"} \subseteq DOMAIN tokens[i])

\* The rows of token_health.json, reduced to what other scripts read
TokenReport(tokens) ==
    [i \in 1..Len(tokens) |->
        [token_id |-> tokens[i]["token_id"],
         survivability_score |-> tokens[i]["survivability_score"],
         score_history |-> tokens[i]["score_history"]]]

\* token_lookup = {str(t["token_id"]): t for t in updated_tokens}
RECURSIVE TokenLookup(_)
TokenLookup(tokens) ==
    IF tokens = <<>> THEN EmptyDict
    ELSE Put(TokenLookup(SubSeq(tokens, 1, Len(tokens) - 1)),
             Str(tokens[Len(tokens)]["token_id"]), tokens[Len(tokens)])

DefaultInteractionScope == [sep |-> ", ", parts |-> <<"read:repo">>]

\* The agent's associated token resolves: it is scored, else kept as it is
Resolves(agent, lookup) ==
    /\ "associated_token_id" \in DOMAIN agent
    /\ Str(agent["associated_token_id"]) \in DOMAIN lookup

\* One iteration of the agent loop
ScoreAgent(agent, lookup, now) ==
    IF ~Resolves(agent, lookup) THEN agent
    ELSE LET interaction_scope == Get(agent, "interaction_scope", DefaultInteractionScope)
             agent_scoring_data ==
                 Put(Put(lookup[Str(agent["associated_token_id"])], "entity_type", "agent"),
                     "scope", interaction_scope)
             S == calculate_score(interaction_scope,
                                  Get(agent, "used_permissions", 1),
                                  Get(agent, "scope_drift", 0),
                                  Get(agent, "audit_trail", <<>>) # <<>>,
                                  agent_scoring_data, now)
             score_history == update_score_history(Get(agent, "agent_id", "None"), S,
                                                   Get(agent, "score_history", <<>>))
         IN  Put(Put(agent, "survivability_score", S), "score_history", score_history)

\* The rows of agent_health.json: one for each agent that was scored
RECURSIVE AgentReport(_, _)
AgentReport(scored, lookup) ==
    IF scored = <<>> THEN <<>>
    ELSE IF Resolves(Head(scored), lookup)
         THEN <<[agent_id |-> Get(Head(scored), "agent_id", "None"),
                 survivability_score |-> Head(scored)["survivability_score"]]>>
              \o AgentReport(Tail(scored), lookup)
         ELSE AgentReport(Tail(scored), lookup)

-----------------------------------------------------------------------------
(* calculate_product_health.py: the product health aggregator *)

\* get_status_from_score of the mean num / den (den > 0), in thousandths
get_status_from_score(num, den) ==
    IF num >= 800 * den THEN "Green"
    ELSE IF num >= 200 * den THEN "Yellow"
    ELSE "Red"

\* {str(r["token_id"]): r.get("survivability_score", 0.0) for r in token_report}
RECURSIVE TokenScores(_)
TokenScores(rows) ==
    IF rows = <<>> THEN EmptyDict
    ELSE Put(TokenScores(SubSeq(rows, 1, Len(rows) - 1)),
             Str(rows[Len(rows)]["token_id"]),
             Get(rows[Len(rows)], "survivability_score", 0))

\* {r["agent_id"]: r.get("survivability_score", 0.0) for r in agent_report}
RECURSIVE AgentScores(_)
AgentScores(rows) ==
    IF rows = <<>> THEN EmptyDict
    ELSE Put(AgentScores(SubSeq(rows, 1, Len(rows) - 1)),
             rows[Len(rows)]["agent_id"],
             Get(rows[Len(rows)], "survivability_score", 0))

\* The scores of the links that are in the score report, in link order
RECURSIVE LinkedScores(_, _)
LinkedScores(links, scores) ==
    IF links = <<>> THEN <<>>
    ELSE IF Head(links) \in DOMAIN scores
         THEN <<scores[Head(links)]>> \o LinkedScores(Tail(links), scores)
         ELSE LinkedScores(Tail(links), scores)

RECURSIVE Sum(_)
Sum(s) == IF s = <<>> THEN 0 ELSE Head(s) + Sum(Tail(s))

\* round(num / den, 3) in thousandths for num >= 0, den > 0
Round1000(num, den) == (2 * num + den) \div (2 * den)

\* One iteration of the product loop
ProductHealth(product, token_scores, agent_scores) ==
    LET linked_agents == Get(product, "linked_agents", <<>>)
        linked_tokens == Get(product, "linked_tokens", <<>>)
        dependency_scores ==
            LinkedScores([i \in 1..Len(linked_tokens) |-> Str(linked_tokens[i])], token_scores)
            \o LinkedScores(linked_agents, agent_scores)
        n == Len(dependency_scores)
        survivability_health == IF n = 0 THEN 0 ELSE Round1000(Sum(dependency_scores), n)
        health_status ==
            IF n = 0
            THEN IF linked_agents = <<>> /\ linked_tokens = <<>> THEN "Unknown" ELSE "Red"
            ELSE get_status_from_score(Sum(dependency_scores), n)
    IN  Put(Put(product, "survivability_health", survivability_health),
            "health_status", health_status)

\* The product ledger calculate_product_health leaves, given the report rows
calculate_product_health(prods, reps) ==
    [i \in 1..Len(prods) |->
        ProductHealth(prods[i], TokenScores(reps.token), AgentScores(reps.agent))]

-----------------------------------------------------------------------------
(* auto_heal.py: the policy evaluator *)

DefaultCritical == 200

DefaultWarning == 500

DefaultTargetScopes == <<"read:org", "repo">>

CriticalThreshold(pol) == Get(Get(pol, "risk", EmptyDict), "critical_threshold", DefaultCritical)

WarningThreshold(pol) == Get(Get(pol, "risk", EmptyDict), "warning_threshold", DefaultWarning)

\* A survivability_score that is not an int or a float (a YAML string or
\* null) is this value
NonNumeric == 999999

\* token.get("survivability_score", 1.0), replaced by 1.0 when it is not a number
NumericScore(token) ==
    LET v == Get(token, "survivability_score", 1000)
    IN  IF v = NonNumeric THEN 1000 ELSE v

\* yaml.safe_load of a policy file that is empty or holds only comments: None
NoPolicy == [yaml_null |-> TRUE]

\* policy.get(...) on None raises AttributeError
PolicyGetRaises(pol) == "yaml_null" \in DOMAIN pol

Reason(rule, score, role) == [rule |-> rule, score |-> score, role |-> role]

\* is_candidate returns (ok, reason); `scores` is accepted and never read.
is_candidate(token, pol, scores) ==
    LET critical_threshold == CriticalThreshold(pol)
        warning_threshold == WarningThreshold(pol)
        current_score == NumericScore(token)
        ex_users == Range(Get(Get(pol, "exemptions", EmptyDict), "users", <<>>))
        ex_tokens == Range(Get(Get(pol, "exemptions", EmptyDict), "tokens", <<>>))
        role == Get(token, "role", "member")
    IN  IF Get(token, "owner", "None") \in ex_users \/ Str(token["token_id"]) \in ex_tokens
        THEN [ok |-> FALSE, reason |-> Reason("exempted", 0, "")]
        ELSE IF current_score >= warning_threshold
        THEN [ok |-> FALSE, reason |-> Reason("score_above_threshold", current_score, "")]
        ELSE IF current_score < critical_threshold
        THEN [ok |-> TRUE, reason |-> Reason("score<0.2", current_score, "")]
        ELSE IF role \in {"admin", "owner"}
        THEN [ok |-> TRUE, reason |-> Reason("score<0.5", current_score, role)]
        ELSE [ok |-> TRUE, reason |-> Reason("score<0.5 (scope_reduction)", current_score, role)]

ServiceAccountCfg(pol) ==
    Get(Get(Get(pol, "actions", EmptyDict), "service_account", EmptyDict), "default", EmptyDict)

\* propose_action with the role tested before the critical threshold: an
\* admin or owner below the critical threshold is only downgraded
propose_action_role_first(token, pol) ==
    LET entity == Get(token, "entity_type", "service_account")
        role == Get(token, "role", "member")
        current_score == NumericScore(token)
        critical_threshold == CriticalThreshold(pol)
        warning_threshold == WarningThreshold(pol)
        sa_cfg == ServiceAccountCfg(pol)
    IN  IF entity = "user"
        THEN IF current_score < warning_threshold /\ role \in {"admin", "owner"}
             THEN [type |-> "org_role_change", target_role |-> "member"]
             ELSE IF current_score < critical_threshold
             THEN [type |-> "revoke_org_access"]
             ELSE IF current_score >= critical_threshold /\ current_score < warning_threshold
             THEN [type |-> "scope_reduction",
                   target_scopes |-> Get(sa_cfg, "target_scopes", DefaultTargetScopes)]
             ELSE LET user_cfg == Get(Get(pol, "actions", EmptyDict), "user", EmptyDict)
                      role_cfg == Get(user_cfg, role, Get(user_cfg, "member", EmptyDict))
                      action_type == Get(role_cfg, "primary", "revoke_org_access")
                  IN  IF action_type = "org_role_change"
                      THEN [type |-> action_type,
                            target_role |-> Get(role_cfg, "target_role", "member")]
                      ELSE [type |-> action_type]
        ELSE LET action_type == Get(sa_cfg, "primary", "scope_reduction")
             IN  IF action_type = "scope_reduction"
                 THEN [type |-> action_type,
                       target_scopes |-> Get(sa_cfg, "target_scopes", DefaultTargetScopes)]
                 ELSE [type |-> action_type]

\* propose_action that downgrades admins only: an owner in the warning band
\* gets a scope reduction
propose_action_admin_only(token, pol) ==
    LET entity == Get(token, "entity_type", "service_account")
        role == Get(token, "role", "member")
        current_score == NumericScore(token)
        critical_threshold == CriticalThreshold(pol)
        warning_threshold == WarningThreshold(pol)
        sa_cfg == ServiceAccountCfg(pol)
    IN  IF entity = "user"
        THEN IF current_score < critical_threshold
             THEN [type |-> "revoke_org_access"]
             ELSE IF current_score >= critical_threshold /\ current_score < warning_threshold
             THEN IF role \in {"admin"}
                  THEN [type |-> "org_role_change", target_role |-> "member"]
                  ELSE [type |-> "scope_reduction",
                        target_scopes |-> Get(sa_cfg, "target_scopes", DefaultTargetScopes)]
             ELSE LET user_cfg == Get(Get(pol, "actions", EmptyDict), "user", EmptyDict)
                      role_cfg == Get(user_cfg, role, Get(user_cfg, "member", EmptyDict))
                      action_type == Get(role_cfg, "primary", "revoke_org_access")
                  IN  IF action_type = "org_role_change"
                      THEN [type |-> action_type,
                            target_role |-> Get(role_cfg, "target_role", "member")]
                      ELSE [type |-> action_type]
        ELSE LET action_type == Get(sa_cfg, "primary", "scope_reduction")
             IN  IF action_type = "scope_reduction"
                 THEN [type |-> action_type,
                       target_scopes |-> Get(sa_cfg, "target_scopes", DefaultTargetScopes)]
                 ELSE [type |-> action_type]

propose_action(token, pol) ==
    LET entity == Get(token, "entity_type", "service_account")
        role == Get(token, "role", "member")
        current_score == NumericScore(token)
        critical_threshold == CriticalThreshold(pol)
        warning_threshold == WarningThreshold(pol)
        sa_cfg == ServiceAccountCfg(pol)
    IN  IF entity = "user"
        THEN IF current_score < critical_threshold
             THEN [type |-> "revoke_org_access"]
             ELSE IF current_score >= critical_threshold /\ current_score < warning_threshold
             THEN IF role \in {"admin", "owner"}
                  THEN [type |-> "org_role_change", target_role |-> "member"]
                  ELSE [type |-> "scope_reduction",
                        target_scopes |-> Get(sa_cfg, "target_scopes", DefaultTargetScopes)]
             ELSE LET user_cfg == Get(Get(pol, "actions", EmptyDict), "user", EmptyDict)
                      role_cfg == Get(user_cfg, role, Get(user_cfg, "member", EmptyDict))
                      action_type == Get(role_cfg, "primary", "revoke_org_access")
                  IN  IF action_type = "org_role_change"
                      THEN [type |-> action_type,
                            target_role |-> Get(role_cfg, "target_role", "member")]
                      ELSE [type |-> action_type]
        ELSE LET action_type == Get(sa_cfg, "primary", "scope_reduction")
             IN  IF action_type = "scope_reduction"
                 THEN [type |-> action_type,
                       target_scopes |-> Get(sa_cfg, "target_scopes", DefaultTargetScopes)]
                 ELSE [type |-> action_type]

DefaultOrgName == "MYNTIST-IAM"

\* org_name: the value of the first "org:<name>" string entry of the trail
RECURSIVE OrgNameOf(_)
OrgNameOf(audit_trail) ==
    IF audit_trail = <<>> THEN DefaultOrgName
    ELSE IF Head(audit_trail).event = "str" /\ Head(audit_trail).key = "org"
         THEN Head(audit_trail).value
         ELSE OrgNameOf(Tail(audit_trail))

\* [f"{org_name}/{repo['name']}" for repo in repo_access if 'name' in repo]
RECURSIVE RepoFullNames(_, _)
RepoFullNames(org_name, repo_access) ==
    IF repo_access = <<>> THEN <<>>
    ELSE IF "name" \in DOMAIN Head(repo_access)
         THEN <<[org |-> org_name, repo |-> Head(repo_access)["name"]]>>
              \o RepoFullNames(org_name, Tail(repo_access))
         ELSE RepoFullNames(org_name, Tail(repo_access))

build_manifest(token, reason, pol) ==
    LET manifest == [token_id |-> token["token_id"],
                     owner |-> Get(token, "owner", "None"),
                     entity_type |-> Get(token, "entity_type", "None"),
                     current_state |-> [role |-> Get(token, "role", "None"),
                                        state |-> Get(token, "state", "None"),
                                        scope |-> Get(token, "scope", "None")],
                     proposed_action |-> propose_action(token, pol),
                     reason |-> reason]
        repos == RepoFullNames(OrgNameOf(Get(token, "audit_trail", <<>>)),
                               Get(token, "repository_access", <<>>))
    IN  IF manifest.proposed_action.type = "scope_reduction" /\ repos # <<>>
        THEN Put(manifest, "targets", [repos |-> repos])
        ELSE manifest

-----------------------------------------------------------------------------
(* apply_autoheal.py: the remediator and the ledger reconciler *)

ORG == "MYNTIST-IAM"

GITHUB_TOKEN == "pat"

Approver == "github-actor"

NotApplied == [ok |-> FALSE, details |-> <<"not applied">>]

NumStr(n) == IF n = 0 THEN "0" ELSE IF n = 1 THEN "1" ELSE IF n = 2 THEN "2" ELSE "n"

\* r.raise_for_status(): raises for 4xx and 5xx
RaisesForStatus(resp) == resp \in {"403", "404", "500"}

\* What load_yaml returns for a manifest file that is empty: None
NoManifest == [yaml_null |-> TRUE]

\* manifest.get(...) raises AttributeError (apply_manifest, outside its try)
ManifestGetRaises(manifest) == "yaml_null" \in DOMAIN manifest

\* apply_manifest that takes only 204 for a successful removal: a 404
\* (already not a member) goes to raise_for_status
apply_manifest_404_raises(manifest, resp) ==
    LET action == Get(manifest, "proposed_action", EmptyDict)
        a_type == Get(action, "type", "None")
        owner == Get(manifest, "owner", "None")
    IN  IF owner \in {"None", ""} THEN [ok |-> FALSE, details |-> <<"manifest missing owner">>]
        ELSE IF a_type = "org_role_change"
        THEN IF resp = "timeout" \/ RaisesForStatus(resp)
             THEN [ok |-> FALSE, details |-> <<"api error", resp>>]
             ELSE [ok |-> TRUE,
                   details |-> <<"org role changed to", Get(action, "target_role", "member")>>]
        ELSE IF a_type = "revoke_org_access"
        THEN IF resp = "204"
             THEN [ok |-> TRUE, details |-> <<"org access revoked">>]
             ELSE [ok |-> FALSE, details |-> <<"api error", resp>>]
        ELSE IF a_type = "scope_reduction"
        THEN [ok |-> TRUE, details |-> <<"reduced permissions">>]
        ELSE [ok |-> FALSE, details |-> <<"unknown action type", a_type>>]

\* apply_manifest(manifest); resp is what the one HTTP call it makes returns:
\* a status code, or "timeout" when requests raises a transport error.
apply_manifest(manifest, resp) ==
    LET action == Get(manifest, "proposed_action", EmptyDict)
        a_type == Get(action, "type", "None")
        owner == Get(manifest, "owner", "None")
    IN  IF ORG = "" THEN [ok |-> FALSE, details |-> <<"ORG_NAME not set">>]
        ELSE IF GITHUB_TOKEN = "" THEN [ok |-> FALSE, details |-> <<"PAT_TOKEN not set">>]
        ELSE IF owner \in {"None", ""} THEN [ok |-> FALSE, details |-> <<"manifest missing owner">>]
        ELSE IF a_type = "org_role_change"
        THEN IF resp = "timeout" \/ RaisesForStatus(resp)
             THEN [ok |-> FALSE, details |-> <<"api error", resp>>]
             ELSE [ok |-> TRUE,
                   details |-> <<"org role changed to", Get(action, "target_role", "member")>>]
        ELSE IF a_type = "revoke_org_access"
        THEN IF resp = "timeout" THEN [ok |-> FALSE, details |-> <<"api error", resp>>]
             ELSE IF resp \in {"204", "404"}
             THEN [ok |-> TRUE, details |-> <<"org access revoked">>]
             ELSE IF RaisesForStatus(resp)
             THEN [ok |-> FALSE, details |-> <<"api error", resp>>]
             ELSE NotApplied
        ELSE IF a_type = "scope_reduction"
        THEN LET repos == Get(Get(manifest, "targets", EmptyDict), "repos", <<>>)
             IN  IF repos = <<>>
                 THEN [ok |-> TRUE, details |-> <<"scope_reduction: no target repos specified, ledger updated only">>]
                 \* the per-repo request is commented out: failures stays empty
                 ELSE [ok |-> TRUE,
                       details |-> <<"reduced permissions on repo(s) to pull", NumStr(Len(repos))>>]
        ELSE [ok |-> FALSE, details |-> <<"unknown action type", a_type>>]

Snapshot(t) == [role |-> Get(t, "role", "None"),
                state |-> Get(t, "state", "None"),
                scope |-> Get(t, "scope", "None")]

\* ", ".join(targets): the string that joins the list's items
JoinScopes(targets) == [sep |-> ", ", parts |-> targets]

\* The body of the loop of update_ledger_post_apply with the 'after' snapshot
\* taken where the 'before' snapshot is taken, ahead of the state changes
ReconcileToken_stale_after(t, manifest, apply_res, approver) ==
    LET before == Snapshot(t)
        action == Get(manifest, "proposed_action", EmptyDict)
        a_type == Get(action, "type", "None")
        t1 == IF a_type = "org_role_change"
              THEN Put(t, "role", Get(action, "target_role", "member"))
              ELSE IF a_type = "revoke_org_access"
              THEN Put(t, "state", "revoked")
              ELSE IF a_type = "scope_reduction"
              THEN LET targets == Get(action, "target_scopes", <<>>)
                   IN  IF targets # <<>> THEN Put(t, "scope", JoinScopes(targets)) ELSE t
              ELSE t
        trail == Get(t1, "audit_trail", <<>>)
    IN  Put(t1, "audit_trail",
            Append(trail, [event |-> "applied",
                           action |-> action,
                           result |-> apply_res,
                           approved_by |-> approver,
                           before |-> before,
                           after |-> before]))

\* The body of the loop of update_ledger_post_apply for the matching token t
ReconcileToken(t, manifest, apply_res, approver) ==
    LET before == Snapshot(t)
        action == Get(manifest, "proposed_action", EmptyDict)
        a_type == Get(action, "type", "None")
        t1 == IF a_type = "org_role_change"
              THEN Put(t, "role", Get(action, "target_role", "member"))
              ELSE IF a_type = "revoke_org_access"
              THEN Put(t, "state", "revoked")
              ELSE IF a_type = "scope_reduction"
              THEN LET targets == Get(action, "target_scopes", <<>>)
                   IN  IF targets # <<>> THEN Put(t, "scope", JoinScopes(targets)) ELSE t
              ELSE t
        after == Snapshot(t1)
        trail == Get(t1, "audit_trail", <<>>)
    IN  Put(t1, "audit_trail",
            Append(trail, [event |-> "applied",
                           action |-> action,
                           result |-> apply_res,
                           approved_by |-> approver,
                           before |-> before,
                           after |-> after]))

\* Indexes of the tokens whose str(token_id) equals str(token_id)
Matching(tokens, token_id) ==
    {i \in 1..Len(tokens) : Str(tokens[i]["token_id"]) = Str(token_id)}

FirstMatch(tokens, token_id) ==
    CHOOSE i \in Matching(tokens, token_id) :
        \A j \in Matching(tokens, token_id) : i <= j

\* update_ledger_post_apply without the `return` that ends its loop: every
\* matching token is reconciled
update_every_match(tokens, token_id, manifest, apply_res, approver) ==
    [i \in 1..Len(tokens) |->
        IF i \in Matching(tokens, token_id)
        THEN ReconcileToken(tokens[i], manifest, apply_res, approver)
        ELSE tokens[i]]

\* update_ledger_post_apply that adds an entity for a token_id it does not
\* find, as update_token_ledger does for a new member
update_ledger_post_apply_upsert(tokens, token_id, manifest, apply_res, approver) ==
    IF Matching(tokens, token_id) = {}
    THEN Append(tokens, ReconcileToken([token_id |-> token_id], manifest, apply_res, approver))
    ELSE LET i == FirstMatch(tokens, token_id)
         IN  [tokens EXCEPT ![i] = ReconcileToken(tokens[i], manifest, apply_res, approver)]

\* update_ledger_post_apply: only the first matching token is touched
update_ledger_post_apply(tokens, token_id, manifest, apply_res, approver) ==
    IF Matching(tokens, token_id) = {} THEN tokens
    ELSE LET i == FirstMatch(tokens, token_id)
         IN  [tokens EXCEPT ![i] = ReconcileToken(tokens[i], manifest, apply_res, approver)]

-----------------------------------------------------------------------------
(* The GitHub organization the scripts call *)

\* GitHub users by login, with their numeric id; any other owner is not a
\* GitHub user.
GitHubUsers == {"alice"}

UserId(login) == 1

\* What the REST call of apply_manifest returns and does to the organization.
\* fault: "none", "timeout" (transport error) or "403" (authorization denied).
ApiResponse(manifest, fault, o) ==
    LET a_type == Get(Get(manifest, "proposed_action", EmptyDict), "type", "None")
        owner == Get(manifest, "owner", "None")
    IN  IF fault # "none" THEN fault
        ELSE IF a_type = "org_role_change"
        THEN IF owner \in GitHubUsers THEN "200" ELSE "404"
        ELSE IF a_type = "revoke_org_access"
        THEN IF owner \in GitHubUsers /\ o[owner] # "absent" THEN "204" ELSE "404"
        ELSE "none"

ApiEffect(manifest, fault, o) ==
    LET action == Get(manifest, "proposed_action", EmptyDict)
        a_type == Get(action, "type", "None")
        owner == Get(manifest, "owner", "None")
    IN  IF fault # "none" \/ owner \notin GitHubUsers THEN o
        ELSE IF a_type = "org_role_change"
        THEN [o EXCEPT ![owner] = Get(action, "target_role", "member")]
        ELSE IF a_type = "revoke_org_access"
        THEN [o EXCEPT ![owner] = "absent"]
        ELSE o

\* get_member_repo_access_from_cache(username, ...): the member's repositories
ExternalRepoAccess(login) ==
    <<[repo_id |-> 1, repo_name |-> "infra", permission |-> "push", private |-> TRUE,
       default_branch |-> "main", access_source |-> "direct"]>>

-----------------------------------------------------------------------------
(* The manifest store *)

\* ops/autoheal/<day>/<token_id>.yml
PathOf(day, token_id) == [day |-> day, name |-> token_id.v]

PathLess(p, q) == p.day < q.day \/ (p.day = q.day /\ p.name < q.name)

\* sorted(OPS_ROOT.rglob("*.yml")) with each file's content
RECURSIVE SortedManifests(_, _)
SortedManifests(st, paths) ==
    IF paths = {} THEN <<>>
    ELSE LET p == CHOOSE x \in paths : \A y \in paths : x = y \/ PathLess(x, y)
         IN  <<[path |-> p, manifest |-> st[p]]>> \o SortedManifests(st, paths \ {p})

NoHistory == [okCount |-> 0, lastFailure |-> "none"]

\* Why an application failed, from the result's details
FailureKind(result) ==
    IF result.ok THEN "none"
    ELSE IF result.details[1] = "api error"
         THEN IF result.details[2] = "timeout" THEN "transport"
              ELSE IF result.details[2] = "403" THEN "denied"
              ELSE "http"
    ELSE IF result.details[1] = "unknown action type" THEN "unknown_type"
    ELSE "other"

-----------------------------------------------------------------------------
(* Initial state *)

OrgMarker == [event |-> "str", key |-> "org", value |-> "MYNTIST-IAM"]

RoleMarker(role) == [event |-> "str", key |-> "role", value |-> role]

\* An event of the kind earlier versions of auto_heal.py wrote to the trail
ProposedEvent == [event |-> "proposed", action |-> [type |-> "revoke_org_access"]]

\* The scope string update_token_ledger gives a member of this role
RoleScope(role) ==
    IF role = "admin"
    THEN [sep |-> ", ", parts |-> <<"admin:org", "repo", "workflow", "write:packages">>]
    ELSE [sep |-> ", ", parts |-> <<"read:org", "repo">>]

\* token_health.json as an earlier scoring pass left it: a row for each
\* entity of the ledger that carries a score
RECURSIVE StoredReport(_)
StoredReport(tokens) ==
    IF tokens = <<>> THEN <<>>
    ELSE IF "survivability_score" \in DOMAIN Head(tokens)
         THEN <<[token_id |-> Head(tokens)["token_id"],
                 survivability_score |-> Head(tokens)["survivability_score"],
                 score_history |-> Get(Head(tokens), "score_history", <<>>)]>>
              \o StoredReport(Tail(tokens))
         ELSE StoredReport(Tail(tokens))

\* legacy: an entry written by an earlier version, with a "proposed" event in
\* its trail and repository entries keyed by 'name'
UserToken(id, role, score, legacy) ==
    LET t == [token_id |-> id, owner |-> "alice", entity_type |-> "user",
              role |-> role, state |-> "active", scope |-> RoleScope(role),
              used_permissions |-> 1, survivability_score |-> score,
              audit_trail |-> <<OrgMarker, RoleMarker(role)>>]
    IN  IF legacy
        THEN Put(Put(t, "audit_trail", <<OrgMarker, RoleMarker(role), ProposedEvent>>),
                 "repository_access", <<[name |-> "infra"]>>)
        ELSE t

ServiceToken(score) ==
    [token_id |-> StrId(7), owner |-> "ci-bot", state |-> "active",
     scope |-> [sep |-> ", ", parts |-> <<"repo">>], used_permissions |-> 1,
     survivability_score |-> score, audit_trail |-> <<>>,
     repository_access |-> <<[name |-> "infra"]>>]

PolicyDefault == EmptyDict

\* Thresholds 0.2 / 0.8, a service-account action the remediator does not
\* know, and an empty list of target scopes
PolicyCustom ==
    [risk |-> [critical_threshold |-> 200, warning_threshold |-> 800],
     actions |-> [service_account |-> [default |-> [primary |-> "rotate_token",
                                                    target_scopes |-> <<>>]]]]

Policies == {PolicyDefault, PolicyCustom}

\* A manifest left in the store for a token that is no longer in the ledger
OrphanManifest ==
    [token_id |-> StrId(9), owner |-> "alice", entity_type |-> "user",
     current_state |-> [role |-> "member", state |-> "active", scope |-> RoleScope("member")],
     proposed_action |-> [type |-> "revoke_org_access"],
     reason |-> Reason("score<0.2", 100, "")]

\* The installations the model starts from: the type of the user's token_id
\* in the YAML ledger, its stored score, whether its trail holds a "proposed"
\* event written by an earlier version, and whether a scoring report exists.
Scenarios ==
    {[id |-> StrId(1), score |-> 100, legacy |-> FALSE, report |-> TRUE],
     [id |-> IntId(1), score |-> 300, legacy |-> TRUE, report |-> TRUE],
     [id |-> StrId(1), score |-> 300, legacy |-> FALSE, report |-> FALSE]}

\* orphan: whether the store holds a manifest whose token has since been
\* removed from the ledger by hand
InitWith(orphan) ==
    /\ \E sc \in Scenarios :
        /\ ledger = <<UserToken(sc.id, "admin", sc.score, sc.legacy), ServiceToken(900)>>
        /\ report = sc.report
        /\ reports = [token |-> IF sc.report THEN StoredReport(ledger) ELSE <<>>,
                      agent |-> <<>>]
    /\ agents = <<>>
    /\ products = <<>>
    /\ opsRoot = orphan
    /\ store = IF orphan THEN Put(EmptyDict, PathOf(0, StrId(9)), OrphanManifest)
               ELSE EmptyDict
    /\ applied = IF orphan THEN Put(EmptyDict, PathOf(0, StrId(9)), NoHistory)
                 ELSE EmptyDict
    /\ policy \in Policies
    /\ org = [u \in GitHubUsers |-> "admin"]
    /\ today = 0
    /\ applyPc = "idle"
    /\ mem = <<>>
    /\ queue = <<>>
    /\ res = NotApplied
    /\ outcome = EmptyDict

Init == InitWith(FALSE)

InitOrphan == InitWith(TRUE)

-----------------------------------------------------------------------------
(* survivability_scoring.py (module body): the scoring pass *)

HistoryLen(t) == Len(Get(t, "score_history", <<>>))

\* One run of survivability_scoring.py: the token loop and the ledger and
\* report writes, the agent loop and its writes, and the product health
\* calculation on the reports just written
ScoringRun ==
    /\ ~ScoringRaises(ledger)
    /\ ledger' = [i \in 1..Len(ledger) |-> ScoreToken(ledger[i], today)]
    /\ report' = TRUE
    /\ agents' = [i \in 1..Len(agents) |-> ScoreAgent(agents[i], TokenLookup(ledger'), today)]
    /\ reports' = [token |-> TokenReport(ledger'),
                   agent |-> IF AgentReport(agents', TokenLookup(ledger')) = <<>>
                             THEN reports.agent
                             ELSE AgentReport(agents', TokenLookup(ledger'))]
    /\ products' = calculate_product_health(products, reports')
    /\ UNCHANGED <<store, opsRoot, policy, org, today, applyPc, mem, queue, res, outcome, applied>>

ScoringPass ==
    /\ applyPc = "idle"
    /\ \A i \in 1..Len(ledger) : HistoryLen(ledger[i]) < MaxHist
    /\ ScoringRun

-----------------------------------------------------------------------------
(* auto_heal.main: the detection pass *)

\* scores as auto_heal.main hands them to is_candidate: the readings of the
\* entity's score history
ScoresOf(token) ==
    [k \in 1..Len(Get(token, "score_history", <<>>)) |-> token["score_history"][k].score]

\* The loop over candidates: save_yaml(ops_dir / f"{token_id}.yml", manifest)
RECURSIVE StageAll(_, _, _, _)
StageAll(st, tokens, pol, day) ==
    IF tokens = <<>> THEN st
    ELSE LET t == Head(tokens)
             c == is_candidate(t, pol, ScoresOf(t))
         IN  StageAll(IF c.ok
                      THEN Put(st, PathOf(day, t["token_id"]), build_manifest(t, c.reason, pol))
                      ELSE st,
                      Tail(tokens), pol, day)

Candidates(tokens, pol) ==
    {i \in 1..Len(tokens) : is_candidate(tokens[i], pol, ScoresOf(tokens[i])).ok}

NotProposed(trail) ==
    {trail[i] : i \in {j \in 1..Len(trail) : trail[j].event # "proposed"}}

\* The clean-up loop: drop pending_action and every "proposed" event
CleanToken(t) ==
    LET trail == Get(t, "audit_trail", <<>>)
    IN  Put(Del(t, "pending_action"), "audit_trail", Filter(trail, NotProposed(trail)))

DetectionPass ==
    /\ applyPc = "idle"
    /\ report
    /\ Candidates(ledger, policy) # {}
    /\ opsRoot' = TRUE
    /\ store' = StageAll(store, ledger, policy, today)
    /\ applied' = [p \in DOMAIN store' |->
                     IF p \in {PathOf(today, ledger[i]["token_id"]) : i \in Candidates(ledger, policy)}
                     THEN NoHistory ELSE applied[p]]
    /\ ledger' = [i \in 1..Len(ledger) |-> CleanToken(ledger[i])]
    /\ UNCHANGED <<agents, products, reports, report, policy, org, today, applyPc, mem, queue, res, outcome>>

-----------------------------------------------------------------------------
(* apply_autoheal.main: the apply pass *)

Faults == {"none", "timeout", "403"}

AppliedEvents(t) ==
    Cardinality({i \in 1..Len(Get(t, "audit_trail", <<>>)) : t["audit_trail"][i].event = "applied"})

RECURSIVE TotalApplied(_)
TotalApplied(tokens) ==
    IF tokens = <<>> THEN 0 ELSE AppliedEvents(Head(tokens)) + TotalApplied(Tail(tokens))

\* load the ledger and every manifest under OPS_ROOT, sorted by path
ApplyBegin ==
    /\ applyPc = "idle"
    /\ opsRoot
    /\ TotalApplied(ledger) + Cardinality(DOMAIN store) <= MaxApplied
    /\ mem' = ledger
    /\ queue' = SortedManifests(store, DOMAIN store)
    /\ applyPc' = "loop"
    /\ UNCHANGED <<agents, products, reports, ledger, store, opsRoot, report, policy, org, today, res, outcome, applied>>

\* One iteration of the loop over manifests. unlinkOk: whether path.unlink()
\* succeeds.
ApplyStep ==
    /\ applyPc = "loop"
    /\ queue # <<>>
    /\ ~ManifestGetRaises(Head(queue).manifest)
    /\ \E fault \in Faults, unlinkOk \in BOOLEAN :
        LET path == Head(queue).path
            manifest == Head(queue).manifest
            r == apply_manifest(manifest, ApiResponse(manifest, fault, org))
        IN  /\ unlinkOk \/ applied[path].okCount < MaxReapply
            /\ res' = r
            /\ org' = IF Get(manifest, "owner", "None") \in {"None", ""}
                      THEN org ELSE ApiEffect(manifest, fault, org)
            /\ mem' = update_ledger_post_apply(mem, Str(manifest["token_id"]),
                                               manifest, r, Approver)
            /\ IF r.ok /\ unlinkOk
               THEN /\ store' = Del(store, path)
                    /\ applied' = Del(applied, path)
               ELSE /\ store' = store
                    /\ applied' = [applied EXCEPT ![path] =
                         [okCount |-> IF r.ok THEN @.okCount + 1 ELSE @.okCount,
                          lastFailure |-> FailureKind(r)]]
            /\ outcome' = Put(outcome, path, r.ok)
    /\ queue' = Tail(queue)
    /\ UNCHANGED <<agents, products, reports, ledger, opsRoot, report, policy, today, applyPc>>

\* save_yaml(LEDGER_PATH, ledger) and return
ApplyEnd ==
    /\ applyPc = "loop"
    /\ queue = <<>>
    /\ ledger' = mem
    /\ applyPc' = "idle"
    /\ mem' = <<>>
    /\ res' = NotApplied
    /\ outcome' = EmptyDict
    /\ UNCHANGED <<agents, products, reports, store, opsRoot, report, policy, org, today, queue, applied>>

-----------------------------------------------------------------------------
(* fetch_github_members.py: the membership sync *)

RepoSummary(repo_access) ==
    LET n(S) == Cardinality({i \in 1..Len(repo_access) : repo_access[i].permission \in S})
        private == Cardinality({i \in 1..Len(repo_access) : repo_access[i].private})
    IN  [total_repos |-> Len(repo_access),
         private_repos |-> private,
         public_repos |-> Len(repo_access) - private,
         pull_repos |-> n({"pull", "read"}),
         triage_repos |-> n({"triage"}),
         push_repos |-> n({"push", "write"}),
         maintain_repos |-> n({"maintain"}),
         admin_repos |-> n({"admin"}),
         write_repos |-> n({"push", "write"}) + n({"maintain"}) + n({"admin"})]

\* The body of the loop of update_token_ledger for one member whose role was
\* fetched
SyncMember(tokens, login, role, state, now) ==
    LET member_id == StrId(UserId(login))
        repo_access == ExternalRepoAccess(login)
        hits == {i \in 1..Len(tokens) : tokens[i]["token_id"] = member_id}
    IN  IF hits # {}
        THEN LET i == CHOOSE x \in hits : \A y \in hits : x <= y
                 t1 == Put(tokens[i], "repository_access", repo_access)
                 t2 == Put(t1, "repo_access_summary", RepoSummary(repo_access))
                 t3 == Put(t2, "role", role)
                 t4 == Put(t3, "state", state)
             IN  [tokens EXCEPT ![i] = t4]
        ELSE Append(tokens,
               [token_id |-> member_id, owner |-> login,
                scope |-> RoleScope(role),
                issued_on |-> now,
                audit_trail |-> <<OrgMarker, RoleMarker(role)>>,
                survivability_score |-> 0,
                entity_type |-> "user", role |-> role, state |-> state,
                repository_access |-> repo_access,
                repo_access_summary |-> RepoSummary(repo_access)])

\* main -> update_token_ledger(fetch_org_members()); a member whose role
\* cannot be fetched is skipped
SyncMembers ==
    /\ applyPc = "idle"
    /\ \E login \in GitHubUsers :
        /\ org[login] # "absent"
        /\ ledger' = SyncMember(ledger, login, org[login], "active", today)
    /\ UNCHANGED <<agents, products, reports, store, opsRoot, report, policy, org, today, applyPc, mem, queue, res, outcome, applied>>

-----------------------------------------------------------------------------
(* The clock *)

NextDay ==
    /\ applyPc = "idle"
    /\ today < MaxDay
    /\ today' = today + 1
    /\ UNCHANGED <<agents, products, reports, ledger, store, opsRoot, report, policy, org, applyPc, mem, queue, res, outcome, applied>>

-----------------------------------------------------------------------------

Next ==
    \/ ScoringPass
    \/ DetectionPass
    \/ ApplyBegin
    \/ ApplyStep
    \/ ApplyEnd
    \/ SyncMembers
    \/ NextDay

Spec == Init /\ [][Next]_vars

\* The same program started with an orphan manifest in the store
SpecOrphan == InitOrphan /\ [][Next]_vars

\* The process of apply_autoheal.main exits inside its loop (the job is
\* cancelled or killed): what it holds in memory is lost, the files stay as
\* they are. outcome keeps what the stopped pass had done.
ApplyCrash ==
    /\ applyPc = "loop"
    /\ applyPc' = "idle"
    /\ mem' = <<>>
    /\ queue' = <<>>
    /\ res' = NotApplied
    /\ UNCHANGED <<agents, products, reports, ledger, store, opsRoot, report, policy, org, today, outcome, applied>>

NextCrash ==
    \/ Next
    \/ ApplyCrash

\* The program with apply passes that may stop at any point
SpecCrash == Init /\ [][NextCrash]_vars

-----------------------------------------------------------------------------
(* Properties *)

\* A step of the apply loop: apply_manifest and the reconciliation of the
\* manifest at the head of the queue
IsApplyStep == applyPc = "loop" /\ queue # <<>> /\ queue' = Tail(queue)

CurPath == Head(queue).path

CurManifest == Head(queue).manifest

CurAction == Get(CurManifest, "proposed_action", EmptyDict)

CurMatches == Matching(mem, Str(CurManifest["token_id"]))

TokState(t) == Get(t, "state", "None")

Trail(t) == Get(t, "audit_trail", <<>>)

IsPrefix(a, b) == Len(a) <= Len(b) /\ SubSeq(b, 1, Len(a)) = a

\* C1: when apply_manifest returns ok=False, the reconciliation leaves every
\* entity's role, state and scope as they were and the manifest stays staged.
C1_FailedApplyLeavesEntity ==
    [][(IsApplyStep /\ ~res'.ok) =>
          /\ Len(mem') = Len(mem)
          /\ \A i \in 1..Len(mem) : Snapshot(mem'[i]) = Snapshot(mem[i])
          /\ CurPath \in DOMAIN store']_vars

\* The fields the proposed action asks for, read from the manifest alone
WantedRole(t, action) ==
    IF Get(action, "type", "None") = "org_role_change"
    THEN Get(action, "target_role", "member") ELSE Get(t, "role", "None")

WantedState(t, action) ==
    IF Get(action, "type", "None") = "revoke_org_access" THEN "revoked" ELSE TokState(t)

OneAppliedEventMore(t, t2) ==
    /\ Len(Trail(t2)) = Len(Trail(t)) + 1
    /\ IsPrefix(Trail(t), Trail(t2))
    /\ Trail(t2)[Len(Trail(t2))].event = "applied"

C3_AppliedAtMostOnce ==
    [][(IsApplyStep /\ res'.ok) => applied[CurPath].okCount = 0]_vars

\* C4: at the end of an apply pass a manifest is in the store if and only if
\* its application in that pass failed.
C4_PresentIffFailed ==
    (applyPc = "loop" /\ queue = <<>>) =>
        \A p \in DOMAIN outcome : (p \in DOMAIN store) <=> ~outcome[p]

\* C5: an entity becomes revoked only through a successful revoke_org_access
\* application, and once revoked its state never changes again.
C5_RevokedIsTerminal ==
    [][/\ \A i \in 1..Len(ledger) :
             TokState(ledger[i]) = "revoked" =>
                 (i <= Len(ledger') /\ TokState(ledger'[i]) = "revoked")
       /\ IsApplyStep =>
             \A i \in 1..Len(mem) :
                /\ TokState(mem[i]) = "revoked" => TokState(mem'[i]) = "revoked"
                /\ (TokState(mem[i]) # "revoked" /\ TokState(mem'[i]) = "revoked") =>
                       (res'.ok /\ Get(CurAction, "type", "None") = "revoke_org_access")]_vars

\* C6: a manifest written to the store for an entity whose state is revoked
\* never proposes a role change or a scope reduction.
C6_RevokedGetsNoOtherProposal ==
    [][\A p \in DOMAIN store' :
          (p \notin DOMAIN store \/ store'[p] # store[p]) =>
              LET hits == Matching(ledger, Str(store'[p]["token_id"]))
              IN  (hits # {} /\ \A i \in hits : TokState(ledger[i]) = "revoked") =>
                      store'[p]["proposed_action"].type
                          \notin {"org_role_change", "scope_reduction"}]_vars

\* C7: in every reachable state the store holds at most one manifest per
\* entity, over all date directories.
C7_OnePendingPerEntity ==
    \A p \in DOMAIN store : \A q \in DOMAIN store :
        Str(store[p]["token_id"]) = Str(store[q]["token_id"]) => p = q

\* C8: under every operation the previous audit_trail of an entity is a prefix
\* of its current one.
C8_TrailAppendOnly ==
    [][/\ \A i \in 1..Len(ledger) :
             i <= Len(ledger') /\ IsPrefix(Trail(ledger[i]), Trail(ledger'[i]))
       /\ IsApplyStep =>
             \A i \in 1..Len(mem) : IsPrefix(Trail(mem[i]), Trail(mem'[i]))]_vars

\* C9: a manifest whose last application was denied by the external system or
\* had an unknown action type is not applied again by a later pass.
C9_FatalFailureNotRetried ==
    [][IsApplyStep => applied[CurPath].lastFailure \notin {"denied", "unknown_type"}]_vars

\* C10: a manifest whose token_id is not in the ledger is dropped by the apply
\* pass without acting on the external system and without changing the ledger.
C10_OrphanDropped ==
    [][(IsApplyStep /\ CurMatches = {}) =>
          /\ org' = org
          /\ mem' = mem
          /\ CurPath \notin DOMAIN store']_vars

-----------------------------------------------------------------------------
(* Overlapping passes: no script takes a lock on the ledger or on the store *)

\* survivability_scoring.py runs while an apply pass is inside its loop
ScoringDuringApply ==
    /\ applyPc = "loop"
    /\ \A i \in 1..Len(ledger) : HistoryLen(ledger[i]) < MaxHist
    /\ ScoringRun

\* auto_heal.main runs while an apply pass is inside its loop
DetectionDuringApply ==
    /\ applyPc = "loop"
    /\ report
    /\ Candidates(ledger, policy) # {}
    /\ opsRoot' = TRUE
    /\ store' = StageAll(store, ledger, policy, today)
    /\ applied' = [p \in DOMAIN store' \cup DOMAIN applied |->
                     IF p \in {PathOf(today, ledger[i]["token_id"]) : i \in Candidates(ledger, policy)}
                     THEN NoHistory ELSE applied[p]]
    /\ ledger' = [i \in 1..Len(ledger) |-> CleanToken(ledger[i])]
    /\ UNCHANGED <<agents, products, reports, report, policy, org, today, applyPc, mem, queue, res, outcome>>

\* The loop of apply_autoheal.main over the manifests q, with every request
\* answered and every unlink succeeding: the ledger and the organization after it
RECURSIVE RunApplyLoop(_, _, _)
RunApplyLoop(tokens, q, o) ==
    IF q = <<>> THEN [tokens |-> tokens, org |-> o]
    ELSE LET manifest == Head(q).manifest
             r == apply_manifest(manifest, ApiResponse(manifest, "none", o))
         IN  RunApplyLoop(update_ledger_post_apply(tokens, Str(manifest["token_id"]),
                                                   manifest, r, Approver),
                          Tail(q),
                          IF Get(manifest, "owner", "None") \in {"None", ""}
                          THEN o ELSE ApiEffect(manifest, "none", o))

\* The manifests such a pass applies with ok=True and deletes
AppliedOk(st, o) ==
    {p \in DOMAIN st : apply_manifest(st[p], ApiResponse(st[p], "none", o)).ok}

\* A second apply_autoheal.main runs from start to end while an apply pass is
\* inside its loop
ApplyDuringApply ==
    /\ applyPc = "loop"
    /\ opsRoot
    /\ store # EmptyDict
    /\ TotalApplied(ledger) + Cardinality(DOMAIN store) <= MaxApplied
    /\ LET run == RunApplyLoop(ledger, SortedManifests(store, DOMAIN store), org)
           done == AppliedOk(store, org)
       IN  /\ ledger' = run.tokens
           /\ org' = run.org
           /\ store' = [p \in DOMAIN store \ done |-> store[p]]
           /\ applied' = [p \in DOMAIN applied |->
                            IF p \in done
                            THEN [okCount |-> applied[p].okCount + 1, lastFailure |-> "none"]
                            ELSE applied[p]]
    /\ UNCHANGED <<agents, products, reports, opsRoot, report, policy, today, applyPc, mem, queue, res, outcome>>

NextOverlap ==
    \/ ScoringPass
    \/ DetectionPass
    \/ ApplyBegin
    \/ ApplyStep
    \/ ApplyEnd
    \/ ScoringDuringApply
    \/ DetectionDuringApply
    \/ ApplyDuringApply

\* The passes that write the ledger, free to overlap
SpecOverlap == Init /\ [][NextOverlap]_vars

-----------------------------------------------------------------------------
(* The evaluator on its own: one detection pass over one ledger entity, for
   every entity record and policy of the sets below *)

EvalIds == {StrId(1), IntId(1)}

\* "absent": the record has no such key
EvalOwners == {"alice", "absent"}

EvalKinds == {"user", "service_account", "agent", "absent"}

EvalRoles == {"admin", "owner", "member", "absent"}

EvalScoreCases ==
    {"absent", "non_numeric", "critical", "degrading", "middle", "healthy",
     "drop_to_threshold", "drop_to_degrading"}

\* The stored score of a score case, in thousandths
EvalScore(sc) ==
    CASE sc = "non_numeric" -> NonNumeric
      [] sc = "critical" -> 100
      [] sc = "degrading" -> 300
      [] sc = "middle" -> 600
      [] sc = "healthy" -> 900
      [] sc = "drop_to_threshold" -> 400
      [] sc = "drop_to_degrading" -> 300
      [] OTHER -> 1000

\* The score history the scoring pass has left for a score case
EvalHistory(sc) ==
    CASE sc = "drop_to_threshold" -> <<[score |-> 1000], [score |-> 400]>>
      [] sc = "drop_to_degrading" -> <<[score |-> 900], [score |-> 850], [score |-> 300]>>
      [] OTHER -> <<>>

\* A ledger entity; with owner absent the record holds nothing but its
\* token_id and what the other parameters give it
EvalToken(id, owner, kind, role, sc) ==
    LET t0 == IF owner = "absent" THEN [token_id |-> id]
              ELSE [token_id |-> id, owner |-> owner, state |-> "active",
                    scope |-> RoleScope("member"),
                    audit_trail |-> <<OrgMarker>>,
                    repository_access |-> <<[name |-> "infra"]>>]
        t1 == IF kind = "absent" THEN t0 ELSE Put(t0, "entity_type", kind)
        t2 == IF role = "absent" THEN t1 ELSE Put(t1, "role", role)
        t3 == IF sc = "absent" THEN t2 ELSE Put(t2, "survivability_score", EvalScore(sc))
    IN  IF EvalHistory(sc) = <<>> THEN t3 ELSE Put(t3, "score_history", EvalHistory(sc))

PolicyExemptUser == [exemptions |-> [users |-> <<"alice">>]]

PolicyExemptStr == [exemptions |-> [tokens |-> <<StrId(1)>>]]

\* tokens: [1] in the policy file: YAML reads the id as an integer
PolicyExemptInt == [exemptions |-> [tokens |-> <<IntId(1)>>]]

PolicySaRevoke ==
    [actions |-> [service_account |-> [default |-> [primary |-> "revoke_org_access"]]]]

PolicySaRole ==
    [actions |-> [service_account |-> [default |-> [primary |-> "org_role_change"]]],
     risk |-> [critical_threshold |-> 200, warning_threshold |-> 800]]

PolicyLowWarning == [risk |-> [critical_threshold |-> 200, warning_threshold |-> 400]]

PolicyUserCfg ==
    [actions |-> [user |-> [admin |-> [primary |-> "org_role_change", target_role |-> "member"],
                            member |-> [primary |-> "scope_reduction"]]]]

EvalPolicies ==
    {PolicyDefault, PolicyCustom, PolicyExemptUser, PolicyExemptStr, PolicyExemptInt,
     PolicySaRevoke, PolicySaRole, PolicyLowWarning, PolicyUserCfg, NoPolicy}

InitEval ==
    /\ \E id \in EvalIds, owner \in EvalOwners, kind \in EvalKinds,
          role \in EvalRoles, sc \in EvalScoreCases :
            ledger = <<EvalToken(id, owner, kind, role, sc)>>
    /\ policy \in EvalPolicies
    /\ report = TRUE
    /\ reports = [token |-> StoredReport(ledger), agent |-> <<>>]
    /\ agents = <<>>
    /\ products = <<>>
    /\ opsRoot = FALSE
    /\ store = EmptyDict
    /\ applied = EmptyDict
    /\ org = [u \in GitHubUsers |-> "admin"]
    /\ today = 0
    /\ applyPc = "idle"
    /\ mem = <<>>
    /\ queue = <<>>
    /\ res = NotApplied
    /\ outcome = EmptyDict

\* auto_heal.main on a policy it can read; on a policy file that loads as
\* None, is_candidate raises before anything is written
EvalDetection ==
    /\ ~PolicyGetRaises(policy)
    /\ DetectionPass

NextEval == EvalDetection

SpecEval == InitEval /\ [][NextEval]_vars

\* The manifest a detection pass of today stages for entity i, if any
Staged(i) == PathOf(today, ledger[i]["token_id"]) \in DOMAIN store

StagedAction(i) == store[PathOf(today, ledger[i]["token_id"])]["proposed_action"]

\* An entity of the persisted ledger with the token_id of the manifest at path
\* p carries an 'applied' event of a successful application
PersistedApplied(p) ==
    \E i \in 1..Len(ledger) :
        /\ ledger[i]["token_id"].v = p.name
        /\ \E k \in 1..Len(Trail(ledger[i])) :
              /\ Trail(ledger[i])[k].event = "applied"
              /\ Trail(ledger[i])[k].result.ok

\* C11: when an apply pass has stopped (or ended), every manifest it applied
\* successfully and deleted has its 'applied' event in the persisted ledger.
C11_StoppedPassIsConsistent ==
    applyPc = "idle" =>
        \A p \in DOMAIN outcome :
            (outcome[p] /\ p \notin DOMAIN store) => PersistedApplied(p)

\* C12: when passes overlap, no write of one pass to an entity is lost to the
\* other (an entity of the persisted ledger never loses an 'applied' event or
\* a score reading when the ledger file is rewritten) and no pass applies a manifest that another pass has already applied and deleted.
C12_OverlapLosesNothing ==
    [][/\ \A i \in 1..Len(ledger) :
             /\ i <= Len(ledger')
             /\ AppliedEvents(ledger'[i]) >= AppliedEvents(ledger[i])
             /\ HistoryLen(ledger'[i]) >= HistoryLen(ledger[i])
       /\ IsApplyStep => CurPath \in DOMAIN store]_vars

\* The entity's owner is on the policy's list of exempted users or its
\* token_id is on the list of exempted tokens (the same id, whichever YAML
\* type either side has)
Exempted(token, pol) ==
    LET ex == Get(pol, "exemptions", EmptyDict)
        users == Range(Get(ex, "users", <<>>))
        tokens == Range(Get(ex, "tokens", <<>>))
    IN  \/ "owner" \in DOMAIN token /\ token["owner"] \in users
        \/ \E x \in tokens : x.v = token["token_id"].v

\* C13: a detection pass, which stages a manifest for exactly the entities
\* is_candidate returns true for, stages none for an exempted entity,
\* whatever its score.
C13_ExemptNeverCandidate ==
    \A i \in 1..Len(ledger) : Exempted(ledger[i], policy) => ~Staged(i)

InBand(token, pol) ==
    /\ NumericScore(token) >= CriticalThreshold(pol)
    /\ NumericScore(token) < WarningThreshold(pol)

C16_BandNeverRevoked ==
    \A i \in 1..Len(ledger) :
        (Staged(i) /\ InBand(ledger[i], policy)) =>
            StagedAction(i).type \in {"org_role_change", "scope_reduction"}

\* C17: for every candidate that is not a user (service account, agent, or no
\* entity_type), under every policy content, the staged action is
\* scope_reduction with the policy-configured target scopes.
C17_ServiceAccountScopeReduction ==
    \A i \in 1..Len(ledger) :
        (Staged(i) /\ Get(ledger[i], "entity_type", "service_account") # "user") =>
            StagedAction(i) =
                [type |-> "scope_reduction",
                 target_scopes |-> Get(ServiceAccountCfg(policy), "target_scopes",
                                       DefaultTargetScopes)]

\* The two most recent readings of the entity's history fall from a healthy
\* score (>= warning_threshold) by 0.55 or more in one step
SevereDrop(token, pol) ==
    LET h == ScoresOf(token)
        n == Len(h)
    IN  /\ n >= 2
        /\ h[n - 1] >= WarningThreshold(pol)
        /\ h[n - 1] - h[n] >= 550

\* C18: a non-exempt entity whose score history shows a severe single-step
\* drop from a healthy score is flagged by is_candidate, also when its new
\* score is still >= warning_threshold.
C18_SevereDropFlagged ==
    ~PolicyGetRaises(policy) =>
        \A i \in 1..Len(ledger) :
            (~Exempted(ledger[i], policy) /\ SevereDrop(ledger[i], policy)) =>
                is_candidate(ledger[i], policy, ScoresOf(ledger[i])).ok

\* C19: evaluation never raises, whatever optional fields the entity lacks and
\* whatever sections the policy lacks, and an entity without a score is not a
\* candidate.
C19_EvaluationTotal ==
    /\ ~PolicyGetRaises(policy)
    /\ \A i \in 1..Len(ledger) :
           "survivability_score" \notin DOMAIN ledger[i] =>
               ~is_candidate(ledger[i], policy, ScoresOf(ledger[i])).ok

-----------------------------------------------------------------------------
(* calculate_score on its input space *)

MaxUsed == 3

MaxRepos == 1

\* Scope strings of zero to three permissions; the first is the empty string
ScoreScopes ==
    {[sep |-> ", ", parts |-> <<>>],
     [sep |-> ", ", parts |-> <<"repo">>],
     [sep |-> ", ", parts |-> <<"read:org", "repo">>],
     [sep |-> ", ", parts |-> <<"read:org", "repo", "workflow">>]}

ScoreKinds == {"user", "service_account"}

ScoreRoles == {"admin", "member", "owner"}

ScoreAges == {"absent", "future", "recent", "middle", "old", "ancient"}

\* issued_on as a day number relative to the day of the scoring pass (day 0)
IssuedOn(age) ==
    CASE age = "future" -> 5
      [] age = "recent" -> -10
      [] age = "middle" -> -50
      [] age = "old" -> -150
      [] OTHER -> -400

\* repo_access_summary as update_token_ledger writes it, reduced to the
\* counts calculate_score reads; EmptyDict stands for a token without summary
ScoreRepoSummaries ==
    {EmptyDict} \cup
    {[total_repos |-> t, private_repos |-> p, admin_repos |-> a] :
        t \in 0..MaxRepos, p \in 0..MaxRepos, a \in 0..MaxRepos}

ScoreToken0(scope, used, drift, kind, role, age, rs, trail) ==
    LET t0 == [token_id |-> StrId(1), owner |-> "alice", scope |-> scope,
               used_permissions |-> used, scope_drift |-> drift,
               entity_type |-> kind, role |-> role, audit_trail |-> trail]
        t1 == IF age = "absent" THEN t0 ELSE Put(t0, "issued_on", IssuedOn(age))
    IN  IF rs = EmptyDict THEN t1 ELSE Put(t1, "repo_access_summary", rs)

InitScore ==
    /\ \E scope \in ScoreScopes, used \in 0..MaxUsed, drift \in DriftAngles,
          kind \in ScoreKinds, role \in ScoreRoles, age \in ScoreAges,
          rs \in ScoreRepoSummaries, trail \in {<<>>, <<OrgMarker>>} :
            /\ rs # EmptyDict => (rs.private_repos <= rs.total_repos
                                  /\ rs.admin_repos <= rs.total_repos)
            /\ ledger = <<ScoreToken0(scope, used, drift, kind, role, age, rs, trail)>>
    /\ policy = PolicyDefault
    /\ report = FALSE
    /\ reports = [token |-> <<>>, agent |-> <<>>]
    /\ agents = <<>>
    /\ products = <<>>
    /\ opsRoot = FALSE
    /\ store = EmptyDict
    /\ applied = EmptyDict
    /\ org = [u \in GitHubUsers |-> "member"]
    /\ today = 0
    /\ applyPc = "idle"
    /\ mem = <<>>
    /\ queue = <<>>
    /\ res = NotApplied
    /\ outcome = EmptyDict

NextScore == ScoringPass

SpecScore == InitScore /\ [][NextScore]_vars

\* C20: every score calculate_score returns, and the scoring pass records in
\* the ledger and in the score history, is between 0 and 1 (in thousandths).
C20_ScoreInRange ==
    \A i \in 1..Len(ledger) :
        /\ LET S == calculate_score(ledger[i]["scope"],
                                    Get(ledger[i], "used_permissions", 1),
                                    Get(ledger[i], "scope_drift", 0),
                                    Get(ledger[i], "audit_trail", <<>>) # <<>>,
                                    ledger[i], today)
           IN  S >= 0 /\ S <= 1000
        /\ "survivability_score" \in DOMAIN ledger[i] =>
               /\ ledger[i]["survivability_score"] >= 0
               /\ ledger[i]["survivability_score"] <= 1000
        /\ \A k \in 1..HistoryLen(ledger[i]) :
               /\ ledger[i]["score_history"][k].score >= 0
               /\ ledger[i]["score_history"][k].score <= 1000

\* A scoring pass has scored an entity with more used permissions than its
\* empty scope string grants, a drift of negative cosine, and an issue date
\* far in the past
C20_Witness ==
    \E i \in 1..Len(ledger) :
        /\ Len(ledger[i]["scope"].parts) = 0
        /\ ledger[i]["used_permissions"] > Granted(ledger[i]["scope"])
        /\ Cos1000(ledger[i]["scope_drift"]) < 0
        /\ "issued_on" \in DOMAIN ledger[i]
        /\ today - ledger[i]["issued_on"] > 100
        /\ HistoryLen(ledger[i]) > 0
        /\ ledger[i]["survivability_score"] = 0

-----------------------------------------------------------------------------
(* The history tracker on every stored history *)

MaxStored == 9

\* A stored list of n readings, oldest first, all different
StoredHistory(n) == [k \in 1..n |-> [score |-> 10 * k]]

\* Stored score_history values: lists of 0..MaxStored entries and a value
\* that is not a list; a missing key is drawn separately
StoredHistories == {StoredHistory(n) : n \in 0..MaxStored} \cup {NotAList}

WithHistory(record, missing, h) ==
    IF missing THEN record ELSE Put(record, "score_history", h)

\* An agent of agents/agent-ledger.yml
Agent(token_id) ==
    [agent_id |-> "bot", agent_name |-> "bot", associated_token_id |-> token_id,
     interaction_scope |-> DefaultInteractionScope]

InitHistory ==
    /\ \E th \in StoredHistories, ah \in StoredHistories,
          tmissing \in BOOLEAN, amissing \in BOOLEAN, linked \in {StrId(1), StrId(5)} :
            /\ tmissing => th = <<>>
            /\ amissing => ah = <<>>
            /\ ledger = <<WithHistory(UserToken(StrId(1), "member", 900, FALSE), tmissing, th)>>
            /\ agents = <<WithHistory(Agent(linked), amissing, ah)>>
    /\ products = <<>>
    /\ reports = [token |-> <<>>, agent |-> <<>>]
    /\ policy = PolicyDefault
    /\ report = FALSE
    /\ opsRoot = FALSE
    /\ store = EmptyDict
    /\ applied = EmptyDict
    /\ org = [u \in GitHubUsers |-> "member"]
    /\ today = 0
    /\ applyPc = "idle"
    /\ mem = <<>>
    /\ queue = <<>>
    /\ res = NotApplied
    /\ outcome = EmptyDict

NextHistory == applyPc = "idle" /\ ScoringRun

SpecHistory == InitHistory /\ [][NextHistory]_vars

StoredList(record) ==
    IF IsList(Get(record, "score_history", <<>>))
    THEN Get(record, "score_history", <<>>) ELSE <<>>

\* new is old followed by one entry with this score, cut to its last 7 entries
IsWindowOf(new, old, score) ==
    LET n == Len(new)
    IN  /\ n = (IF Len(old) + 1 > MAX_HISTORY_ENTRIES
                THEN MAX_HISTORY_ENTRIES ELSE Len(old) + 1)
        /\ new[n] = [score |-> score]
        /\ \A k \in 1..(n - 1) : new[k] = old[Len(old) - (n - 1) + k]

\* What update_score_history returns for this record's stored history and
\* this score is a window of them
WindowAfter(record, id, score) ==
    IsWindowOf(update_score_history(id, score, Get(record, "score_history", <<>>)),
               StoredList(record), score)

\* C22: for every stored history the scoring runs leave or find, what
\* update_score_history returns is the old history followed by the new
\* entry, cut to its last 7 entries, in the old order, also when the new
\* score is the entity's current one, which after a run is its latest entry.
C22_FifoWindow ==
    /\ \A i \in 1..Len(ledger) :
          \A score \in {0, Get(ledger[i], "survivability_score", 0)} :
              WindowAfter(ledger[i], ledger[i]["token_id"], score)
    /\ \A a \in 1..Len(agents) :
          \A score \in {0, Get(agents[a], "survivability_score", 0)} :
              WindowAfter(agents[a], agents[a]["agent_id"], score)

\* Scoring runs have cut a stored history of more than 7 entries and have
\* appended the same score twice in a row: the latest stored entry is now
\* fifth, followed by two equal entries
C22_Witness ==
    /\ Len(ledger) = 1
    /\ HistoryLen(ledger[1]) = MAX_HISTORY_ENTRIES
    /\ ledger[1]["score_history"][1].score > 10
    /\ ledger[1]["score_history"][5].score = 10 * MaxStored
    /\ ledger[1]["score_history"][6] = ledger[1]["score_history"][7]

-----------------------------------------------------------------------------

\* C23: apply_manifest returns ok=True for a revoke_org_access manifest both
\* when the organization answers 204 and when it answers 404, so a revocation
\* the organization answers (no transport or authorization fault) succeeds,
\* and so does the same revocation applied again to the organization it left.
C23_RevokeIdempotent ==
    [][(/\ IsApplyStep
        /\ CurAction = [type |-> "revoke_org_access"]
        /\ Get(CurManifest, "owner", "None") \notin {"None", ""}) =>
          /\ \A resp \in {"204", "404"} : apply_manifest(CurManifest, resp).ok
          /\ res' = apply_manifest(CurManifest, ApiResponse(CurManifest, "none", org)) =>
                /\ res'.ok
                /\ ApiResponse(CurManifest, "none", org') = "404"
                /\ apply_manifest(CurManifest, ApiResponse(CurManifest, "none", org')).ok]_vars

\* A revocation has been applied twice with success: the member is absent
\* from the organization and the entity's trail holds both results
C23_Witness ==
    \E i \in 1..Len(ledger) :
        /\ Get(ledger[i], "owner", "None") \in GitHubUsers
        /\ org[ledger[i]["owner"]] = "absent"
        /\ \E j, k \in 1..Len(Trail(ledger[i])) :
              /\ j < k
              /\ \A e \in {Trail(ledger[i])[j], Trail(ledger[i])[k]} :
                    /\ e.event = "applied"
                    /\ e.action = [type |-> "revoke_org_access"]
                    /\ e.result = [ok |-> TRUE, details |-> <<"org access revoked">>]

\* The resources a scope_reduction manifest lists
CurRepos == Get(Get(CurManifest, "targets", EmptyDict), "repos", <<>>)

\* The owner's permission on the listed repository is read-only in the
\* organization
ReducedToPull(owner, full_name) ==
    \A k \in 1..Len(ExternalRepoAccess(owner)) :
        ExternalRepoAccess(owner)[k].repo_name = full_name.repo =>
            ExternalRepoAccess(owner)[k].permission = "pull"

\* C24: a scope_reduction manifest that lists resources is answered with
\* ok=True only when the owner's permission on every listed resource has been
\* reduced in the organization.
C24_ScopeReductionPerResource ==
    [][(/\ IsApplyStep
        /\ Get(CurAction, "type", "None") = "scope_reduction"
        /\ CurRepos # <<>>
        /\ res'.ok) =>
          \A k \in 1..Len(CurRepos) : ReducedToPull(CurManifest["owner"], CurRepos[k])]_vars

-----------------------------------------------------------------------------
(* An apply pass over a store that holds an empty manifest file *)

\* The iteration of the loop of apply_autoheal.main on an empty manifest
\* file: apply_manifest raises, main ends without saving the ledger
ApplyAbort ==
    /\ applyPc = "loop"
    /\ queue # <<>>
    /\ ManifestGetRaises(Head(queue).manifest)
    /\ applyPc' = "idle"
    /\ mem' = <<>>
    /\ queue' = <<>>
    /\ res' = NotApplied
    /\ UNCHANGED <<agents, products, reports, ledger, store, opsRoot, report, policy, org,
                   today, outcome, applied>>

\* The store holds an empty file, ops/autoheal/<day 0>/5.yml, which sorts
\* after the manifests of entity 1
InitBatch ==
    /\ \E sc \in Scenarios :
        /\ ledger = <<UserToken(sc.id, "admin", sc.score, sc.legacy), ServiceToken(900)>>
        /\ report = sc.report
        /\ reports = [token |-> IF sc.report THEN StoredReport(ledger) ELSE <<>>,
                      agent |-> <<>>]
    /\ agents = <<>>
    /\ products = <<>>
    /\ opsRoot = TRUE
    /\ store = Put(EmptyDict, PathOf(0, StrId(5)), NoManifest)
    /\ applied = Put(EmptyDict, PathOf(0, StrId(5)), NoHistory)
    /\ policy \in Policies
    /\ org = [u \in GitHubUsers |-> "admin"]
    /\ today = 0
    /\ applyPc = "idle"
    /\ mem = <<>>
    /\ queue = <<>>
    /\ res = NotApplied
    /\ outcome = EmptyDict

\* ApplyEnd is not among the steps: the queue of a pass never empties, since
\* the empty file is loaded by every pass and nothing removes it
NextBatch ==
    \/ ScoringPass
    \/ DetectionPass
    \/ ApplyBegin
    \/ ApplyStep
    \/ ApplyAbort

SpecBatch == InitBatch /\ [][NextBatch]_vars

\* C25: a failure confined to one manifest does not abort the apply pass:
\* when the pass ends, no manifest other than failing ones is left in its
\* queue, and the ledger it reconciled in memory is saved.
C25_BadRecordDoesNotAbort ==
    [][(applyPc = "loop" /\ applyPc' = "idle") =>
          /\ \A k \in 1..Len(queue) : ManifestGetRaises(queue[k].manifest)
          /\ ledger' = mem]_vars

-----------------------------------------------------------------------------
(* The product health aggregator on every kind of link *)

\* calculate_product_health.main; with no products it returns before writing
ProductHealthPass ==
    /\ applyPc = "idle"
    /\ products # <<>>
    /\ products' = calculate_product_health(products, reports)
    /\ UNCHANGED <<ledger, store, opsRoot, report, policy, org, today, applyPc, mem, queue,
                   res, outcome, applied, agents, reports>>

\* Lists of linked token ids: none, one that is scored (written as a string
\* or as a number), one that is not in the report, and both
ProductTokenLinks ==
    {<<>>, <<StrId(1)>>, <<IntId(1)>>, <<StrId(9)>>, <<StrId(1), StrId(9)>>}

ProductAgentLinks == {<<>>, <<"bot">>, <<"ghost">>}

ProductScores == {100, 500, 900}

Product(linked_tokens, linked_agents) ==
    [product_id |-> "prod", product_name |-> "prod",
     linked_tokens |-> linked_tokens, linked_agents |-> linked_agents]

InitProduct ==
    /\ \E lt \in ProductTokenLinks, la \in ProductAgentLinks,
          ts \in ProductScores, as \in ProductScores, scored \in BOOLEAN :
            /\ ledger = <<UserToken(StrId(1), "member", ts, FALSE)>>
            /\ agents = <<IF scored THEN Put(Agent(StrId(1)), "survivability_score", as)
                                     ELSE Agent(StrId(5))>>
            /\ products = <<Product(lt, la)>>
            /\ reports = [token |-> StoredReport(ledger),
                          agent |-> IF scored
                                    THEN <<[agent_id |-> "bot", survivability_score |-> as]>>
                                    ELSE <<>>]
            /\ ~scored => as = 100
    /\ report = TRUE
    /\ policy = PolicyDefault
    /\ opsRoot = FALSE
    /\ store = EmptyDict
    /\ applied = EmptyDict
    /\ org = [u \in GitHubUsers |-> "member"]
    /\ today = 0
    /\ applyPc = "idle"
    /\ mem = <<>>
    /\ queue = <<>>
    /\ res = NotApplied
    /\ outcome = EmptyDict

NextProduct ==
    \/ ProductHealthPass
    \/ ScoringPass

SpecProduct == InitProduct /\ [][NextProduct]_vars

\* The scores, in the reports, of the product's links that resolve
ResolvedScores(product) ==
    LET lt == Get(product, "linked_tokens", <<>>)
        la == Get(product, "linked_agents", <<>>)
        tok(k) == {i \in 1..Len(reports.token) : Str(reports.token[i].token_id) = Str(lt[k])}
        agt(k) == {i \in 1..Len(reports.agent) : reports.agent[i].agent_id = la[k]}
    IN  [tokens |-> [k \in {x \in 1..Len(lt) : tok(x) # {}} |->
                        reports.token[CHOOSE i \in tok(k) : \A j \in tok(k) : j <= i].survivability_score],
         agents |-> [k \in {x \in 1..Len(la) : agt(x) # {}} |->
                        reports.agent[CHOOSE i \in agt(k) : \A j \in agt(k) : j <= i].survivability_score]]

RECURSIVE SumOver(_, _)
SumOver(f, S) ==
    IF S = {} THEN 0
    ELSE LET k == CHOOSE x \in S : TRUE IN f[k] + SumOver(f, S \ {k})

\* C26: a product whose health has been calculated has status Unknown
\* exactly when none of its links resolves to a score of the reports;
\* otherwise its status is Green, Yellow or Red by the mean of the scores of
\* the links that resolve, which is its survivability_health.
C26_UnknownIffNoValidLink ==
    \A p \in 1..Len(products) :
        "health_status" \in DOMAIN products[p] =>
            LET r == ResolvedScores(products[p])
                n == Cardinality(DOMAIN r.tokens) + Cardinality(DOMAIN r.agents)
                total == SumOver(r.tokens, DOMAIN r.tokens) + SumOver(r.agents, DOMAIN r.agents)
            IN  IF n = 0 THEN products[p]["health_status"] = "Unknown"
                ELSE /\ products[p]["health_status"] =
                           (IF total >= 800 * n THEN "Green"
                            ELSE IF total >= 200 * n THEN "Yellow" ELSE "Red")
                     /\ 2 * n * products[p]["survivability_health"] <= 2 * total + n
                     /\ 2 * n * products[p]["survivability_health"] > 2 * total - n

-----------------------------------------------------------------------------

\* C27: under a policy that configures no thresholds, a non-exempt entity
\* with a numeric score is a candidate exactly when its status is Degrading
\* or Critical: score >= 0.8 is Healthy and not a candidate, score < 0.8 is
\* a candidate.
C27_StatusMatchesCandidacy ==
    (~PolicyGetRaises(policy) /\ "risk" \notin DOMAIN policy) =>
        \A i \in 1..Len(ledger) :
            (/\ ~Exempted(ledger[i], policy)
             /\ "survivability_score" \in DOMAIN ledger[i]
             /\ ledger[i]["survivability_score"] # NonNumeric) =>
                (is_candidate(ledger[i], policy, ScoresOf(ledger[i])).ok
                    <=> get_status(ledger[i]["survivability_score"]) # "Healthy")

\* The credential of the example: 2 granted scopes, 1 used permission, zero
\* drift, a non-empty audit trail, no repository or issue-date data
IsExampleCredential(t) ==
    /\ Get(t, "entity_type", "None") = "user"
    /\ Len(t["scope"].parts) = 2
    /\ Get(t, "used_permissions", 1) = 1
    /\ Get(t, "scope_drift", 0) = 0
    /\ Get(t, "audit_trail", <<>>) # <<>>
    /\ "repo_access_summary" \notin DOMAIN t
    /\ "issued_on" \notin DOMAIN t

\* C28: the example credential with role admin or owner is scored 1.0 and
\* has status Healthy (role factor 2.0 for admin and for owner).
C28_AdminOwnerFactor ==
    \A i \in 1..Len(ledger) :
        (/\ IsExampleCredential(ledger[i])
         /\ Get(ledger[i], "role", "member") \in {"admin", "owner"}
         /\ HistoryLen(ledger[i]) > 0) =>
            /\ ledger[i]["survivability_score"] = 1000
            /\ get_status(ledger[i]["survivability_score"]) = "Healthy"

-----------------------------------------------------------------------------
(* The apply pass in runs where fetch_github_members.py does not run *)

NextNoSync ==
    \/ ScoringPass
    \/ DetectionPass
    \/ ApplyBegin
    \/ ApplyStep
    \/ ApplyEnd
    \/ NextDay

SpecNoSync == Init /\ [][NextNoSync]_vars

AppliedIdx(t) == {k \in 1..Len(Trail(t)) : Trail(t)[k].event = "applied"}

\* Each 'applied' event of t starts from the snapshot the previous one ended
\* with
Chained(t) ==
    \A k, l \in AppliedIdx(t) :
        (k < l /\ ~\E m \in AppliedIdx(t) : k < m /\ m < l) =>
            Trail(t)[k].after = Trail(t)[l].before

\* C29: the audit event update_ledger_post_apply appends carries the apply
\* result, the approver, a 'before' snapshot equal to the entity's
\* role/state/scope just before the call and an 'after' snapshot equal to its
\* role/state/scope just after the call; with no membership sync in between,
\* the 'after' of each 'applied' event of an entity equals the 'before' of its
\* next one.
C29_AuditEventSnapshots ==
    [][/\ (IsApplyStep /\ CurMatches # {}) =>
              LET i == FirstMatch(mem, Str(CurManifest["token_id"]))
                  e == Trail(mem'[i])[Len(Trail(mem'[i]))]
              IN  /\ OneAppliedEventMore(mem[i], mem'[i])
                  /\ e.result = res'
                  /\ e.approved_by = Approver
                  /\ e.before = Snapshot(mem[i])
                  /\ e.after = Snapshot(mem'[i])
       /\ \A i \in 1..Len(mem') : Chained(mem'[i])
       /\ \A i \in 1..Len(ledger') : Chained(ledger'[i])]_vars

\* An entity of the saved ledger has two 'applied' events, each of which
\* changed its role/state/scope, the second starting where the first ended
C29_Witness ==
    \E i \in 1..Len(ledger) :
        \E k, l \in AppliedIdx(ledger[i]) :
            /\ k < l
            /\ Trail(ledger[i])[k].before # Trail(ledger[i])[k].after
            /\ Trail(ledger[i])[l].before = Trail(ledger[i])[k].after
            /\ Trail(ledger[i])[l].before # Trail(ledger[i])[l].after
            /\ Trail(ledger[i])[l].after = Snapshot(ledger[i])

\* The scripts run on one day, started with an orphan manifest in the store
NextSameDay ==
    \/ ScoringPass
    \/ DetectionPass
    \/ ApplyBegin
    \/ ApplyStep
    \/ ApplyEnd
    \/ SyncMembers

SpecSameDay == InitOrphan /\ [][NextSameDay]_vars

\* The fields update_ledger_post_apply assigns
ReconciledFields == {"role", "state", "scope", "audit_trail"}

OtherFields(t) == [f \in DOMAIN t \ ReconciledFields |-> t[f]]

\* C30: a call of update_ledger_post_apply touches only role, state, scope
\* and audit_trail of the first entity whose token_id, as a string, equals the
\* manifest's; that entity's other fields (score, score_history, ...) and
\* every other entity are unchanged, and with no matching entity the ledger
\* is unchanged.
C30_AtMostOneEntityTouched ==
    [][IsApplyStep =>
          /\ Len(mem') = Len(mem)
          /\ \A i \in 1..Len(mem) :
                IF CurMatches # {} /\ i = FirstMatch(mem, Str(CurManifest["token_id"]))
                THEN OtherFields(mem'[i]) = OtherFields(mem[i])
                ELSE mem'[i] = mem[i]]_vars

\* In one apply pass a manifest whose token_id no entity carries has been
\* applied, and so has a manifest for a token_id two entities carry: the
\* first of the two holds the 'applied' event and its score history, the
\* second has no 'applied' event, and no entity was added for the unmatched
\* manifest
C30_Witness ==
    /\ applyPc = "loop"
    /\ PathOf(0, StrId(9)) \in DOMAIN outcome
    /\ Matching(mem, Str(StrId(9))) = {}
    /\ \E i, j \in 1..Len(mem) :
          /\ i < j
          /\ Str(mem[i]["token_id"]) = Str(mem[j]["token_id"])
          /\ AppliedIdx(mem[i]) # {}
          /\ AppliedIdx(mem[j]) = {}
          /\ HistoryLen(mem[i]) > 0

====
